---- MODULE Spec2Model ----
(***************************************************************************)
(* Model of dinosar.archive.asf: loading ASF query results into an         *)
(* inventory table, merging the Sentinel-1A and Sentinel-1B inventories,   *)
(* and the per-track / global summaries and footprint exports written      *)
(* from that inventory.                                                    *)
(*                                                                         *)
(* A table (DataFrame) is a record [index, rows]: index is the sequence of *)
(* row labels, rows the sequence of rows, each row a function from column  *)
(* name to value.  Strings that the code formats, parses or compares       *)
(* (dates, times, track ids) are sequences of character codes, so that     *)
(* string order and calendar order are two different things.               *)
(***************************************************************************)
EXTENDS Integers, Sequences, FiniteSets, TLC

(* ---------------- bounds of the explored inputs ---------------- *)

\* most scenes in the Sentinel-1A result document (the Sentinel-1B result
\* document of the explored runs holds a single scene)
MaxRowsA == 2

(* ---------------- characters and strings ---------------- *)

\* ord('0'), ord('-'), ord(':'), ord(' ')
Chr(c) ==
    CASE c = "0" -> 48 [] c = "-" -> 45 [] c = ":" -> 58 [] c = " " -> 32

Digit(n) == Chr("0") + n

\* Python str comparison: lexicographic by code point
RECURSIVE StrLess(_, _)
StrLess(a, b) ==
    IF b = <<>> THEN FALSE
    ELSE IF a = <<>> THEN TRUE
    ELSE IF Head(a) # Head(b) THEN Head(a) < Head(b)
    ELSE StrLess(Tail(a), Tail(b))

\* '%02d' and '%04d' fields of strftime
Pad2(n) == <<Digit(n \div 10), Digit(n % 10)>>
Pad4(n) == <<Digit(n \div 1000), Digit((n \div 100) % 10)>> \o Pad2(n % 100)

\* value of the decimal digits s[i..j]
RECURSIVE Num(_, _, _)
Num(s, i, j) ==
    IF j < i THEN 0 ELSE 10 * Num(s, i, j - 1) + (s[j] - Chr("0"))

\* decimal text of a track number: the archive's JSON carries every value as
\* a string, and load_asf_json leaves relativeOrbit as it came
RECURSIVE IntToStr(_)
IntToStr(n) ==
    IF n < 10 THEN <<Digit(n)>> ELSE IntToStr(n \div 10) \o <<Digit(n % 10)>>

(* ---------------- calendar (proleptic Gregorian) ---------------- *)

SecondsPerDay == 24 * 60 * 60

\* days from 1970-01-01 to the civil date y-m-d
DaysFromCivil(y, m, d) ==
    LET yy  == IF m <= 2 THEN y - 1 ELSE y
        era == yy \div 400
        yoe == yy - era * 400
        mp  == IF m > 2 THEN m - 3 ELSE m + 9
        doy == (153 * mp + 2) \div 5 + d - 1
        doe == yoe * 365 + yoe \div 4 - yoe \div 100 + doy
    IN  era * 146097 + doe - 719468

\* the civil date of day number z (days from 1970-01-01)
CivilFromDays(z) ==
    LET zz  == z + 719468
        era == zz \div 146097
        doe == zz - era * 146097
        yoe == (doe - doe \div 1460 + doe \div 36524 - doe \div 146096) \div 365
        doy == doe - (365 * yoe + yoe \div 4 - yoe \div 100)
        mp  == (5 * doy + 2) \div 153
        d   == doy - (153 * mp + 2) \div 5 + 1
        m   == IF mp < 10 THEN mp + 3 ELSE mp - 9
        y   == yoe + era * 400 + (IF m <= 2 THEN 1 ELSE 0)
    IN  [y |-> y, m |-> m, d |-> d]

\* pd.to_datetime of 'YYYY-MM-DD HH:MM:SS' or of 'YYYY-MM-DD': a Timestamp,
\* here the day number since 1970-01-01 and the second of that day
to_datetime(s) ==
    [day |-> DaysFromCivil(Num(s, 1, 4), Num(s, 6, 7), Num(s, 9, 10)),
     sec |-> IF Len(s) > 10
             THEN Num(s, 12, 13) * 3600 + Num(s, 15, 16) * 60 + Num(s, 18, 19)
             ELSE 0]

\* Timestamp.strftime('%Y-%m-%d')
strftime_date(ts) ==
    LET c == CivilFromDays(ts.day)
    IN  Pad4(c.y) \o <<Chr("-")>> \o Pad2(c.m) \o <<Chr("-")>> \o Pad2(c.d)

\* Timestamp.strftime('%H:%M:%S')
strftime_time(ts) ==
    Pad2(ts.sec \div 3600) \o <<Chr(":")>> \o Pad2((ts.sec \div 60) % 60)
        \o <<Chr(":")>> \o Pad2(ts.sec % 60)

\* Timedelta.days of the difference a - b of two Timestamps (floor of the
\* difference in days)
TimedeltaDays(a, b) == (a.day - b.day) + ((a.sec - b.sec) \div SecondsPerDay)

(* ---------------- state ---------------- *)

VARIABLES
    rawA,          \* the Sentinel-1A result document: list of scene dictionaries
    rawB,          \* the Sentinel-1B result document
    gf,            \* the inventory GeoDataFrame the caller holds
    acquisitions,  \* acquisitions_{orb}.csv files: track -> timeline rows
    summary,       \* inventory_summary.csv and the printed archive size
    footprints,    \* footprint export: track directories and {date}.geojson files
    query,         \* query.geojson written by save_inventory
    lastOp         \* the last call and how it ended

vars == <<rawA, rawB, gf, acquisitions, summary, footprints, query, lastOp>>

(* ---------------- the archive's result documents ---------------- *)

\* relative orbits (tracks) of the scenes in the explored documents
Tracks == {64, 100}

\* acquisition days of the scenes in the explored documents: two days of one
\* repeat cycle, and for the second platform also a day more than 2^15 days
\* away from them
SceneDays(sat) ==
    IF sat = "Sentinel-1A"
    THEN {<<2018, 1, 1>>, <<2018, 1, 13>>}
    ELSE {<<2018, 1, 1>>, <<2018, 1, 13>>, <<1920, 2, 29>>}

\* the time of day at which each platform passes
PassTime(sat) ==
    IF sat = "Sentinel-1A"
    THEN Pad2(23) \o <<Chr(":")>> \o Pad2(59) \o <<Chr(":")>> \o Pad2(59)
    ELSE Pad2(0) \o <<Chr(":")>> \o Pad2(0) \o <<Chr(":")>> \o Pad2(0)

\* 'YYYY-MM-DD HH:MM:SS' as the archive writes sceneDate
SceneDateText(day, sat) ==
    Pad4(day[1]) \o <<Chr("-")>> \o Pad2(day[2]) \o <<Chr("-")>> \o Pad2(day[3])
        \o <<Chr(" ")>> \o PassTime(sat)

\* the field that only some result documents carry
ExtraField == "frameNumber"

\* one scene dictionary of a result document
Scene(sat, k, trk, day, extra) ==
    LET base == [granuleName     |-> <<sat, k>>,
                 platform        |-> sat,
                 relativeOrbit   |-> IntToStr(trk),
                 sceneDate       |-> SceneDateText(day, sat),
                 flightDirection |-> IF trk = 64 THEN "ASCENDING" ELSE "DESCENDING",
                 stringFootprint |-> <<"POLYGON", sat, k>>,
                 downloadUrl     |-> <<"https", sat, k>>]
    IN  IF extra THEN base @@ (ExtraField :> "F") ELSE base

\* the result documents of n scenes of one platform
Documents(sat, n, extra) ==
    { [k \in 1..n |-> Scene(sat, k, f[k][1], f[k][2], extra)] :
        f \in [1..n -> Tracks \X SceneDays(sat)] }

(* ---------------- tables ---------------- *)

NaN == "NaN"

NoTable == [index |-> <<>>, rows |-> <<>>]

\* a file that does not exist
NoFile == [exists |-> FALSE, rows |-> <<>>]

Columns(t) == IF t.rows = <<>> THEN {} ELSE DOMAIN t.rows[1]

\* 0, 1, ..., n-1
RangeIndex(n) == [i \in 1..n |-> i - 1]

\* order of two relativeOrbit values: they are the JSON strings of the result
\* document (the code passes them to os.makedirs and os.path.join), so Python
\* orders them as strings
OrbitLess(a, b) == StrLess(a, b)

\* Series.astype('category').cat.codes: rank among the sorted distinct values
CatCode(v, values) == Cardinality({w \in values : OrbitLess(w, v)})

\* shapely.wkt.loads of a footprint string
WktLoads(wkt) == [polygon |-> <<wkt[2], wkt[3]>>]

\* load_asf_json: the DataFrame of the scene dictionaries plus derived columns
load_asf_json(meta) ==
    LET orbits == {meta[i].relativeOrbit : i \in DOMAIN meta}
        Derive(r) ==
            LET timeStamp       == to_datetime(r.sceneDate)
                sceneDateString == strftime_date(timeStamp)
            IN  r @@ [geometry        |-> WktLoads(r.stringFootprint),
                      timeStamp       |-> timeStamp,
                      sceneDateString |-> sceneDateString,
                      dateStamp       |-> to_datetime(sceneDateString),
                      utc             |-> strftime_time(timeStamp),
                      orbitCode       |-> CatCode(r.relativeOrbit, orbits)]
    IN  [index |-> RangeIndex(Len(meta)),
         rows  |-> [i \in DOMAIN meta |-> Derive(meta[i])]]

\* variant: the second table's rows come first
concat_swapped(a, b) ==
    LET cols == Columns(a) \cup Columns(b)
        Fill(r) == [c \in cols |-> IF c \in DOMAIN r THEN r[c] ELSE NaN]
    IN  [index |-> b.index \o a.index,
         rows  |-> [i \in 1..Len(b.rows) |-> Fill(b.rows[i])]
                     \o [i \in 1..Len(a.rows) |-> Fill(a.rows[i])]]

\* pd.concat([a, b]): rows and labels of a, then those of b; the columns are
\* the union of both tables' columns, NaN where a table has no such column
concat(a, b) ==
    LET cols == Columns(a) \cup Columns(b)
        Fill(r) == [c \in cols |-> IF c \in DOMAIN r THEN r[c] ELSE NaN]
    IN  [index |-> a.index \o b.index,
         rows  |-> [i \in 1..Len(a.rows) |-> Fill(a.rows[i])]
                     \o [i \in 1..Len(b.rows) |-> Fill(b.rows[i])]]

\* variant: the concatenated table keeps the labels of its two sources
reset_index_missing(t) == t

\* DataFrame.reset_index(): the old labels become the column 'index', the
\* labels become 0..n-1
reset_index(t) ==
    [index |-> RangeIndex(Len(t.rows)),
     rows  |-> [i \in 1..Len(t.rows) |-> t.rows[i] @@ ("index" :> t.index[i])]]

\* merge_inventories: load both documents, concatenate, reset the index
merge_inventories(s1A, s1B) ==
    reset_index(concat(load_asf_json(s1A), load_asf_json(s1B)))

\* Series.unique(): the distinct values in order of first appearance
RECURSIVE unique(_)
unique(vals) ==
    IF vals = <<>> THEN <<>>
    ELSE LET init == unique(SubSeq(vals, 1, Len(vals) - 1))
             last == vals[Len(vals)]
         IN  IF \E i \in DOMAIN init : init[i] = last THEN init
             ELSE Append(init, last)

Column(t, c) == [i \in 1..Len(t.rows) |-> t.rows[i][c]]

\* the strings of S in ascending order (the key order of a groupby)
RECURSIVE SortedStrings(_)
SortedStrings(S) ==
    IF S = {} THEN <<>>
    ELSE LET m == CHOOSE x \in S : \A y \in S \ {x} : StrLess(x, y)
         IN  <<m>> \o SortedStrings(S \ {m})

\* the relativeOrbit values of S in ascending order (the key order of a groupby)
RECURSIVE SortedOrbits(_)
SortedOrbits(S) ==
    IF S = {} THEN <<>>
    ELSE LET m == CHOOSE x \in S : \A y \in S \ {x} : OrbitLess(x, y)
         IN  <<m>> \o SortedOrbits(S \ {m})

Reverse(q) == [i \in 1..Len(q) |-> q[Len(q) + 1 - i]]

(* ---------------- summarize_orbits ---------------- *)

\* variant: the query keeps the rows of every track
QueryOrbit_all(t, orb) == t

\* gf.query('relativeOrbit == @orb')
QueryOrbit(t, orb) ==
    LET keep == SelectSeq([i \in 1..Len(t.rows) |-> i],
                          LAMBDA i : t.rows[i].relativeOrbit = orb)
    IN  [index |-> [k \in 1..Len(keep) |-> t.index[keep[k]]],
         rows  |-> [k \in 1..Len(keep) |-> t.rows[keep[k]]]]

\* df.groupby('sceneDateString').granuleName.count(): for each date string, in
\* ascending string order, the number of rows with a granuleName
GroupCount(df) ==
    LET keys == SortedStrings({df.rows[i].sceneDateString : i \in 1..Len(df.rows)})
    IN  [k \in 1..Len(keys) |->
            Cardinality({i \in 1..Len(df.rows) :
                            /\ df.rows[i].sceneDateString = keys[k]
                            /\ df.rows[i].granuleName # NaN})]

\* drop_duplicates('sceneDateString'): the first row of every date string
drop_duplicates(rows) ==
    SelectSeq([i \in 1..Len(rows) |-> [pos |-> i, row |-> rows[i]]],
              LAMBDA e : \A j \in 1..(e.pos - 1) :
                            rows[j].sceneDateString # e.row.sceneDateString)

\* variant: the de-duplicated rows are left in their first-seen order
sort_values_unsorted(rows) == rows

\* sort_values('sceneDateString'): ascending by the date string
RECURSIVE sort_values(_)
sort_values(rows) ==
    IF rows = <<>> THEN <<>>
    ELSE LET init == sort_values(SubSeq(rows, 1, Len(rows) - 1))
             last == rows[Len(rows)]
             n    == Cardinality({i \in DOMAIN init :
                        ~StrLess(last.sceneDateString, init[i].sceneDateString)})
         IN  SubSeq(init, 1, n) \o <<last>> \o SubSeq(init, n + 1, Len(init))

\* the range of numpy's 'i2'
I2Bits == 16

\* what a build may store for a float that 'i2' cannot hold
CastModes == {"wrap", "saturate"}

\* Series.astype('i2') of a whole-valued float
astype_i2(v, mode) ==
    LET half == 2 ^ (I2Bits - 1)
    IN  IF -half <= v /\ v < half THEN v
        ELSE IF mode = "wrap" THEN ((v + half) % (2 * half)) - half
        ELSE IF v < 0 THEN -half ELSE half - 1

\* the body of the loop of summarize_orbits for one track: the rows of
\* acquisitions_{orb}.csv, or the exception that ends the call
TrackTimeline(t, orb, mode) ==
    LET df      == QueryOrbit(t, orb)
        nFrames == GroupCount(df)
        dedup   == drop_duplicates(df.rows)
        DF      == sort_values([i \in 1..Len(dedup) |-> dedup[i].row])
        days(i) == IF i = 1 THEN 0
                   ELSE TimedeltaDays(DF[i].dateStamp, DF[i - 1].dateStamp)
    IN  IF ~({"sceneDateString", "dateStamp", "platform"} \subseteq Columns(t))
        THEN [err |-> "KeyError", rows |-> <<>>]
        ELSE IF Len(nFrames) # Len(DF)
        THEN [err |-> "ValueError", rows |-> <<>>]
        ELSE [err  |-> "ok",
              rows |-> [i \in 1..Len(DF) |->
                          [sceneDateString |-> DF[i].sceneDateString,
                           platform        |-> DF[i].platform,
                           dt              |-> astype_i2(days(i), mode),
                           nFrames         |-> nFrames[i]]]]

\* the loop over gf.relativeOrbit.unique(): the files written and how it ended
RECURSIVE OrbitsLoop(_, _, _, _)
OrbitsLoop(t, orbs, mode, files) ==
    IF orbs = <<>> THEN [err |-> "ok", files |-> files]
    ELSE LET r == TrackTimeline(t, Head(orbs), mode)
         IN  IF r.err # "ok" THEN [err |-> r.err, files |-> files]
             ELSE OrbitsLoop(t, Tail(orbs), mode, (Head(orbs) :> r.rows) @@ files)

summarize_orbits ==
    /\ gf.built
    /\ \E mode \in CastModes :
          LET r == OrbitsLoop(gf.table, unique(Column(gf.table, "relativeOrbit")),
                              mode, acquisitions)
          IN  /\ acquisitions' = r.files
              /\ lastOp' = [name |-> "summarize_orbits", err |-> r.err]
    /\ UNCHANGED <<rawA, rawB, gf, summary, footprints, query>>

(* ---------------- summarize_inventory ---------------- *)

\* assumed size of one frame in GB
GBPerFrame == 5

\* the row of one track in inventory_summary.csv
SummaryRow(t, orb) ==
    LET rows  == QueryOrbit(t, orb).rows
        dates == {rows[i].sceneDateString : i \in 1..Len(rows)}
        asc   == SortedStrings(dates)
    IN  [Orbit     |-> orb,
         Start     |-> asc[1],
         Stop      |-> asc[Len(asc)],
         Dates     |-> Cardinality(dates),
         Frames    |-> Cardinality({i \in 1..Len(rows) : rows[i].sceneDateString # NaN}),
         Direction |-> rows[1].flightDirection,
         UTC       |-> rows[1].utc]

\* dfS.sort_index(ascending=False): the tracks in descending order
sort_index_descending(orbs) == Reverse(SortedOrbits({orbs[i] : i \in DOMAIN orbs}))

RECURSIVE SumFrames(_)
SumFrames(rows) == IF rows = <<>> THEN 0 ELSE Head(rows).Frames + SumFrames(Tail(rows))

summarize_inventory ==
    /\ gf.built
    /\ LET idx == sort_index_descending(unique(Column(gf.table, "relativeOrbit")))
           dfS == [i \in 1..Len(idx) |-> SummaryRow(gf.table, idx[i])]
       IN  summary' = [exists |-> TRUE,
                       rows   |-> dfS,
                       size   |-> [num |-> SumFrames(dfS) * GBPerFrame, den |-> 1000]]
    /\ lastOp' = [name |-> "summarize_inventory", err |-> "ok"]
    /\ UNCHANGED <<rawA, rawB, gf, acquisitions, footprints, query>>

(* ---------------- save_geojson_footprints ---------------- *)

\* the columns written to every {date}.geojson
attributes == {"granuleName", "downloadUrl", "geometry"}

\* gb.groups[(orbit, date)]: the labels of the rows of that track and date
GroupLabels(t, orbit, date) ==
    LET keep == SelectSeq([i \in 1..Len(t.rows) |-> i],
                          LAMBDA i : /\ t.rows[i].relativeOrbit = orbit
                                     /\ t.rows[i].sceneDateString = date)
    IN  [k \in 1..Len(keep) |-> t.index[keep[k]]]

\* gf.loc[labels, attributes]: for each label in turn, every row carrying it
RECURSIVE Loc(_, _)
Loc(t, labels) ==
    IF labels = <<>> THEN <<>>
    ELSE LET hit == SelectSeq([i \in 1..Len(t.rows) |-> i],
                              LAMBDA i : t.index[i] = Head(labels))
         IN  [k \in 1..Len(hit) |-> [c \in attributes |-> t.rows[hit[k]][c]]]
                 \o Loc(t, Tail(labels))

\* variant: os.makedirs(orbit, exist_ok=True)
makedirs_exist_ok(dirs, orbit) == "ok"

\* os.makedirs(orbit): the exception it raises, or "ok"
makedirs(dirs, orbit) ==
    IF orbit \in dirs THEN "FileExistsError" ELSE "ok"

\* the inner loop: one {date}.geojson per date of the track
RECURSIVE DatesLoop(_, _, _, _)
DatesLoop(t, orbit, dates, files) ==
    IF dates = <<>> THEN files
    ELSE DatesLoop(t, orbit, Tail(dates),
                   (<<orbit, Head(dates)>> :> Loc(t, GroupLabels(t, orbit, Head(dates))))
                       @@ files)

\* the outer loop over the tracks in groupby order
RECURSIVE FootprintsLoop(_, _, _)
FootprintsLoop(t, orbits, fs) ==
    IF orbits = <<>> THEN [err |-> "ok", fs |-> fs]
    ELSE LET orbit    == Head(orbits)
             made     == makedirs(fs.dirs, orbit)
             dateList == unique(Column(QueryOrbit(t, orbit), "sceneDateString"))
         IN  IF made # "ok" THEN [err |-> made, fs |-> fs]
             ELSE FootprintsLoop(t, Tail(orbits),
                     [dirs  |-> fs.dirs \cup {orbit},
                      files |-> DatesLoop(t, orbit, dateList, fs.files)])

save_geojson_footprints ==
    /\ gf.built
    /\ LET S == SortedOrbits({gf.table.rows[i].relativeOrbit :
                                 i \in 1..Len(gf.table.rows)})
           r == FootprintsLoop(gf.table, S, footprints)
       IN  /\ footprints' = r.fs
           /\ lastOp' = [name |-> "save_geojson_footprints", err |-> r.err]
    /\ UNCHANGED <<rawA, rawB, gf, acquisitions, summary, query>>

(* ---------------- save_inventory ---------------- *)

\* the Timestamp columns that save_inventory drops
dropped == {"timeStamp", "dateStamp"}

\* gf.drop(columns, axis=1)
drop(t, cols) ==
    [index |-> t.index,
     rows  |-> [i \in 1..Len(t.rows) |->
                   [c \in (DOMAIN t.rows[i]) \ cols |-> t.rows[i][c]]]]

save_inventory ==
    /\ gf.built
    /\ IF dropped \subseteq Columns(gf.table)
       THEN /\ gf' = [gf EXCEPT !.table = drop(gf.table, dropped)]
            /\ query' = [exists |-> TRUE, rows |-> gf'.table.rows]
            /\ lastOp' = [name |-> "save_inventory", err |-> "ok"]
       ELSE /\ gf' = gf
            /\ query' = NoFile
            /\ lastOp' = [name |-> "save_inventory", err |-> "KeyError"]
    /\ UNCHANGED <<rawA, rawB, acquisitions, summary, footprints>>

(* ---------------- initial state ---------------- *)

Init ==
    /\ \E nA \in 1..MaxRowsA, xB \in BOOLEAN :
          /\ rawA \in Documents("Sentinel-1A", nA, FALSE)
          /\ rawB \in Documents("Sentinel-1B", 1, xB)
    /\ gf = [built |-> FALSE, table |-> NoTable]
    /\ acquisitions = [o \in {} |-> <<>>]
    /\ summary = [exists |-> FALSE, rows |-> <<>>, size |-> [num |-> 0, den |-> 1000]]
    /\ footprints = [dirs |-> {}, files |-> [p \in {} |-> <<>>]]
    /\ query = NoFile
    /\ lastOp = [name |-> "start", err |-> "ok"]

(* ---------------- merge_inventories ---------------- *)

\* the caller merges the two result documents into the inventory
MergeInventories ==
    /\ ~gf.built
    /\ gf' = [built |-> TRUE, table |-> merge_inventories(rawA, rawB)]
    /\ lastOp' = [name |-> "merge_inventories", err |-> "ok"]
    /\ UNCHANGED <<rawA, rawB, acquisitions, summary, footprints, query>>

Next ==
    \/ MergeInventories
    \/ summarize_orbits
    \/ summarize_inventory
    \/ save_geojson_footprints
    \/ save_inventory

Spec == Init /\ [][Next]_vars

(* ---------------- vocabulary of the properties ---------------- *)

InventoryRows == gf.table.rows

\* positions of the inventory rows of a track, and of a track and date
TrackRows(orb) == {i \in 1..Len(InventoryRows) : InventoryRows[i].relativeOrbit = orb}
GroupRows(orb, date) == {i \in TrackRows(orb) : InventoryRows[i].sceneDateString = date}
TrackDates(orb) == {InventoryRows[i].sceneDateString : i \in TrackRows(orb)}
InventoryTracks == {InventoryRows[i].relativeOrbit : i \in 1..Len(InventoryRows)}

\* day number of the calendar date a date string denotes
CalendarDay(s) == to_datetime(s).day

RECURSIVE SumDt(_, _)
SumDt(tl, i) == IF i < 2 THEN 0 ELSE tl[i].dt + SumDt(tl, i - 1)

\* some track of the inventory has two neighbouring acquisition dates further
\* apart than 'i2' can hold
WideGap(orb) ==
    \E a \in TrackDates(orb), b \in TrackDates(orb) :
        /\ CalendarDay(b) - CalendarDay(a) >= 2 ^ (I2Bits - 1)
        /\ ~\E c \in TrackDates(orb) :
              CalendarDay(a) < CalendarDay(c) /\ CalendarDay(c) < CalendarDay(b)

(* ---------------- properties ---------------- *)

\* C1: on every written timeline, the row of each date of the track carries as
\* nFrames the number of inventory rows of that track with that date string,
\* whatever the order of the inventory rows.
C1_FrameCountsByDate ==
    \A orb \in DOMAIN acquisitions :
        \A date \in TrackDates(orb) :
            \E k \in DOMAIN acquisitions[orb] :
                /\ acquisitions[orb][k].sceneDateString = date
                /\ acquisitions[orb][k].nFrames = Cardinality(GroupRows(orb, date))

\* C1 witness: a timeline of two dates with different frame counts, written
\* for a track whose first inventory row is not of its earliest date.
C1_Witness ==
    \E orb \in DOMAIN acquisitions :
        LET tl    == acquisitions[orb]
            first == CHOOSE i \in TrackRows(orb) : \A j \in TrackRows(orb) : i <= j
        IN  /\ Len(tl) = 2
            /\ tl[1].nFrames # tl[2].nFrames
            /\ InventoryRows[first].sceneDateString # tl[1].sceneDateString

\* C2: on every written timeline the first dt is 0, every later dt is the
\* number of days between the entry's calendar date and the previous entry's,
\* no dt is negative, and the first date plus the later dts is the last date.
C2_DeltasAreDayGaps ==
    \A orb \in DOMAIN acquisitions :
        LET tl == acquisitions[orb]
        IN  /\ tl[1].dt = 0
            /\ \A i \in 2..Len(tl) :
                  /\ tl[i].dt = CalendarDay(tl[i].sceneDateString)
                                  - CalendarDay(tl[i - 1].sceneDateString)
                  /\ tl[i].dt >= 0
            /\ CalendarDay(tl[1].sceneDateString) + SumDt(tl, Len(tl))
                  = CalendarDay(tl[Len(tl)].sceneDateString)

\* C3: every written timeline has exactly one entry for each distinct date of
\* its track and no other entry, and its entries are strictly increasing by
\* calendar date.
C3_OneEntryPerDateAscending ==
    \A orb \in DOMAIN acquisitions :
        LET tl == acquisitions[orb]
        IN  /\ Len(tl) = Cardinality(TrackDates(orb))
            /\ {tl[i].sceneDateString : i \in 1..Len(tl)} = TrackDates(orb)
            /\ \A i \in 2..Len(tl) :
                  CalendarDay(tl[i - 1].sceneDateString) < CalendarDay(tl[i].sceneDateString)

\* C3 witness: a timeline of two dates whose track has rows of both
\* satellites, the later satellite's row earlier in the calendar.
C3_Witness ==
    \E orb \in DOMAIN acquisitions :
        /\ Len(acquisitions[orb]) = 2
        /\ \E i \in TrackRows(orb), j \in TrackRows(orb) :
              /\ i < j
              /\ InventoryRows[i].platform # InventoryRows[j].platform
              /\ CalendarDay(InventoryRows[j].sceneDateString)
                    < CalendarDay(InventoryRows[i].sceneDateString)

\* C4: after summarize_orbits on an inventory in which a track has neighbouring
\* dates more than 32767 days apart, the call has failed with DeltaRangeError
\* and no timeline of that track exists.
C4_WideGapFails ==
    (lastOp.name = "summarize_orbits" /\ \E orb \in InventoryTracks : WideGap(orb))
        => /\ lastOp.err = "DeltaRangeError"
           /\ \A orb \in InventoryTracks : WideGap(orb) => orb \notin DOMAIN acquisitions

C6_SchemaMismatchFails ==
    gf.built =>
        /\ DOMAIN rawA[1] = DOMAIN rawB[1]
        /\ \A i \in 1..Len(InventoryRows) :
              \A c \in DOMAIN InventoryRows[i] : c # ExtraField \/ InventoryRows[i][c] # NaN

\* C7: a run of save_geojson_footprints that finds the directory of every
\* track of the inventory left by an earlier run fails with the error of an
\* existing location and leaves the exported artifacts exactly as they were.
C7_SecondExportFails ==
    [][(/\ save_geojson_footprints
        /\ InventoryTracks \subseteq footprints.dirs
        /\ DOMAIN footprints.files # {})
          => /\ lastOp'.err = "FileExistsError"
             /\ footprints' = footprints]_vars

\* C7 witness: the state after a second export on an inventory whose first
\* export wrote artifacts for two tracks.
C7_Witness ==
    /\ lastOp = [name |-> "save_geojson_footprints", err |-> "FileExistsError"]
    /\ Cardinality(footprints.dirs) = 2
    /\ DOMAIN footprints.files # {}

\* C8: the summary has one row per distinct track, in descending order of the
\* track number; Frames is the track's row count, Dates its number of distinct
\* date strings, Start and Stop its earliest and latest date; the Frames sum
\* to the inventory's row count, and the size is rows x 5 / 1000.
C8_SummaryPerTrackDescending ==
    summary.exists =>
        LET dfS == summary.rows
        IN  /\ Len(dfS) = Cardinality(InventoryTracks)
            /\ {dfS[i].Orbit : i \in 1..Len(dfS)} = InventoryTracks
            /\ \A i \in 2..Len(dfS) :
                  Num(dfS[i - 1].Orbit, 1, Len(dfS[i - 1].Orbit))
                      > Num(dfS[i].Orbit, 1, Len(dfS[i].Orbit))
            /\ \A i \in 1..Len(dfS) :
                  LET orb == dfS[i].Orbit
                  IN  /\ dfS[i].Frames = Cardinality(TrackRows(orb))
                      /\ dfS[i].Dates = Cardinality(TrackDates(orb))
                      /\ dfS[i].Start \in TrackDates(orb)
                      /\ dfS[i].Stop \in TrackDates(orb)
                      /\ \A d \in TrackDates(orb) :
                            /\ CalendarDay(dfS[i].Start) <= CalendarDay(d)
                            /\ CalendarDay(d) <= CalendarDay(dfS[i].Stop)
            /\ SumFrames(dfS) = Len(InventoryRows)
            /\ summary.size = [num |-> Len(InventoryRows) * 5, den |-> 1000]

\* C9: after a successful save_geojson_footprints there is exactly one
\* artifact per (track, date) pair of the inventory, in the directory of its
\* track and named by its date, and every inventory row is in the artifact of
\* its own track and date exactly once and in no other artifact.
C9_OneArtifactPerTrackDate ==
    (lastOp = [name |-> "save_geojson_footprints", err |-> "ok"]) =>
        LET files   == footprints.files
            Frame(i) == [c \in attributes |-> InventoryRows[i][c]]
            Times(p, i) == Cardinality({k \in 1..Len(files[p]) : files[p][k] = Frame(i)})
        IN  /\ footprints.dirs = InventoryTracks
            /\ DOMAIN files = {<<InventoryRows[i].relativeOrbit,
                                 InventoryRows[i].sceneDateString>> :
                                   i \in 1..Len(InventoryRows)}
            /\ \A p \in DOMAIN files :
                  /\ Len(files[p]) = Cardinality(GroupRows(p[1], p[2]))
                  /\ \A i \in 1..Len(InventoryRows) :
                        Times(p, i) = IF i \in GroupRows(p[1], p[2]) THEN 1 ELSE 0

\* C9 witness: a successful export of an inventory of two tracks in which one
\* (track, date) group holds frames of both satellites.
C9_Witness ==
    /\ lastOp = [name |-> "save_geojson_footprints", err |-> "ok"]
    /\ Cardinality(footprints.dirs) = 2
    /\ \E p \in DOMAIN footprints.files :
          /\ Len(footprints.files[p]) = 2
          /\ footprints.files[p][1].granuleName[1] # footprints.files[p][2].granuleName[1]

\* C10: once built, the inventory keeps the rows and fields it was built with,
\* whatever operations have run on it.
C10_InventoryReadOnly ==
    gf.built => gf.table = merge_inventories(rawA, rawB)

====
